---------------------------- MODULE Spec2Model ----------------------------
(***************************************************************************)
(* Model of clean_colab_notebook.py: clean_notebook (read, three cleanup   *)
(* rules, write back) and the batch loop of main.                          *)
(*                                                                         *)
(* A Python str is a sequence of one-character strings, so that the        *)
(* substring test of `in` and the character iteration of `for` are         *)
(* computed and not assumed.  A parsed JSON value is a record              *)
(*   [k, s, a, m]                                                          *)
(* k: the Python type ("dict", "list", "str", "int", "bool", "NoneType"),  *)
(* s: the characters of a str (the literal of an int or bool),             *)
(* a: the elements of a list, m: the items of a dict in insertion order,   *)
(* each [key |-> str characters, val |-> value].                           *)
(***************************************************************************)
EXTENDS Integers, Sequences, FiniteSets, TLC

(***************************************************************************)
(* String literals of the source and of the sample notebooks.              *)
(***************************************************************************)

\* "metadata"
K_metadata ==
    <<"m", "e", "t", "a", "d", "a", "t", "a">>

\* "widgets"
K_widgets ==
    <<"w", "i", "d", "g", "e", "t", "s">>

\* "cells"
K_cells ==
    <<"c", "e", "l", "l", "s">>

\* "outputs"
K_outputs ==
    <<"o", "u", "t", "p", "u", "t", "s">>

\* "data"
K_data ==
    <<"d", "a", "t", "a">>

\* "colab"
K_colab ==
    <<"c", "o", "l", "a", "b">>

\* "toc_visible"
K_toc_visible ==
    <<"t", "o", "c", "_", "v", "i", "s", "i", "b", "l", "e">>

\* "application/vnd.jupyter.widget-view+json"
WIDGET_VIEW ==
    <<"a", "p", "p", "l", "i", "c", "a", "t", "i", "o", "n", "/", "v", "n", "d", ".", "j", "u", "p", "y", "t", "e", "r", ".", "w", "i", "d", "g", "e", "t", "-", "v", "i", "e", "w", "+", "j", "s", "o", "n">>

\* "text/plain"
K_text_plain ==
    <<"t", "e", "x", "t", "/", "p", "l", "a", "i", "n">>

\* "name"
K_name ==
    <<"n", "a", "m", "e">>

\* "foo"
K_foo ==
    <<"f", "o", "o">>

\* "title"
K_title ==
    <<"t", "i", "t", "l", "e">>

\* "cell_type"
K_cell_type ==
    <<"c", "e", "l", "l", "_", "t", "y", "p", "e">>

\* "c"
K_c ==
    <<"c">>

\* A lone UTF-16 surrogate, written \ud83d in the JSON text: json.load
\* accepts it and yields a str holding that one code point.
SURROGATE ==
    "\\ud83d"

(***************************************************************************)
(* Parsed JSON values (what json.load returns).                            *)
(***************************************************************************)
PyDict(items) ==
    [k |-> "dict", s |-> <<>>, a |-> <<>>, m |-> items]

PyList(elems) ==
    [k |-> "list", s |-> <<>>, a |-> elems, m |-> <<>>]

PyStr(chars) ==
    [k |-> "str", s |-> chars, a |-> <<>>, m |-> <<>>]

PyInt(digits) ==
    [k |-> "int", s |-> digits, a |-> <<>>, m |-> <<>>]

PyTrue ==
    [k |-> "bool", s |-> <<"1">>, a |-> <<>>, m |-> <<>>]

PyNone ==
    [k |-> "NoneType", s |-> <<>>, a |-> <<>>, m |-> <<>>]

Item(key, val) ==
    [key |-> key, val |-> val]

(***************************************************************************)
(* Python's container operations, with the exception each one raises.      *)
(* A result is [exc, v]: exc = "" when the operation returns v.            *)
(***************************************************************************)
\* the element of a set of one element
The(S) ==
    CHOOSE v \in S : TRUE

Ok(v) ==
    [exc |-> "", v |-> v]

Raise(e) ==
    [exc |-> e, v |-> FALSE]

HasKey(d, key) ==
    \E i \in 1..Len(d.m) : d.m[i].key = key

KeyIndex(d, key) ==
    CHOOSE i \in 1..Len(d.m) : d.m[i].key = key

\* d[key] for a dict d that has the key
Lookup(d, key) ==
    d.m[KeyIndex(d, key)].val

\* del d[key] for a dict d that has the key
DelKey(d, key) ==
    LET i == KeyIndex(d, key)
    IN  PyDict(SubSeq(d.m, 1, i - 1) \o SubSeq(d.m, i + 1, Len(d.m)))

\* d[key] = val: an existing key keeps its place, a new key goes last
SetKey(d, key, val) ==
    IF HasKey(d, key)
    THEN PyDict([d.m EXCEPT ![KeyIndex(d, key)] = Item(key, val)])
    ELSE PyDict(Append(d.m, Item(key, val)))

\* sub in s, for two str
IsSubstring(sub, s) ==
    \E i \in 0..(Len(s) - Len(sub)) : SubSeq(s, i + 1, i + Len(sub)) = sub

\* key in x
PyContains(key, x) ==
    CASE x.k = "dict" -> Ok(HasKey(x, key))
      [] x.k = "list" -> Ok(\E i \in 1..Len(x.a) : x.a[i] = PyStr(key))
      [] x.k = "str"  -> Ok(IsSubstring(key, x.s))
      [] OTHER        -> Raise("TypeError")

\* x[key] with a str key
PyGetItem(x, key) ==
    CASE x.k = "dict" -> IF HasKey(x, key) THEN Ok(Lookup(x, key))
                                           ELSE Raise("KeyError")
      [] OTHER        -> Raise("TypeError")

\* x.get(key, default)
PyGet(x, key, default) ==
    CASE x.k = "dict" -> IF HasKey(x, key) THEN Ok(Lookup(x, key))
                                           ELSE Ok(default)
      [] OTHER        -> Raise("AttributeError")

\* del x[key] with a str key
PyDelItem(x, key) ==
    CASE x.k = "dict" -> IF HasKey(x, key) THEN Ok(DelKey(x, key))
                                           ELSE Raise("KeyError")
      [] OTHER        -> Raise("TypeError")

\* x.pop(key, None): the container after the call
PyPop(x, key) ==
    CASE x.k = "dict" -> IF HasKey(x, key) THEN Ok(DelKey(x, key)) ELSE Ok(x)
      [] x.k = "list" -> Raise("TypeError")
      [] OTHER        -> Raise("AttributeError")

\* a variant of PyIter for which a number, a boolean and None have no
\* elements
PyIter_EmptyScalar(x) ==
    CASE x.k = "dict" -> Ok([i \in 1..Len(x.m) |-> PyStr(x.m[i].key)])
      [] x.k = "list" -> Ok(x.a)
      [] x.k = "str"  -> Ok([i \in 1..Len(x.s) |-> PyStr(<<x.s[i]>>)])
      [] OTHER        -> Ok(<<>>)

\* the values that `for e in x` binds e to
PyIter(x) ==
    CASE x.k = "dict" -> Ok([i \in 1..Len(x.m) |-> PyStr(x.m[i].key)])
      [] x.k = "list" -> Ok(x.a)
      [] x.k = "str"  -> Ok([i \in 1..Len(x.s) |-> PyStr(<<x.s[i]>>)])
      [] OTHER        -> Raise("TypeError")

\* bool(x)
PyTruthy(x) ==
    CASE x.k = "dict"     -> x.m # <<>>
      [] x.k = "list"     -> x.a # <<>>
      [] x.k = "str"      -> x.s # <<>>
      [] x.k = "NoneType" -> FALSE
      [] OTHER            -> x.s # <<"0">>

(***************************************************************************)
(* The change descriptions.  A description is the sequence of the pieces   *)
(* its f-string is formatted from.                                         *)
(***************************************************************************)
WidgetsDescription ==
    <<"Removed 'widgets' from metadata">>

OutputsDescription(widgets_removed) ==
    <<"Removed ", ToString(widgets_removed), " widget output reference(s)">>

\* ', '.join(colab_keys_removed)
RECURSIVE Join(_)
Join(keys) ==
    IF keys = <<>> THEN <<>>
    ELSE IF Len(keys) = 1 THEN <<Head(keys)>>
    ELSE <<Head(keys), ", ">> \o Join(Tail(keys))

ColabDescription(colab_keys_removed) ==
    <<"Cleaned Colab metadata: ">> \o Join(colab_keys_removed)

InvalidJsonDescription ==
    <<"Invalid JSON: ", "JSONDecodeError">>

ErrorDescription(e) ==
    <<"Error: ", e>>

(***************************************************************************)
(* The state of the try block between two rules: the exception raised so   *)
(* far ("" for none), the tree, the change list and the rule 2 counter.    *)
(***************************************************************************)
Raised(e, st) ==
    [st EXCEPT !.exc = e]

(***************************************************************************)
(* Rule 1: remove 'widgets' from the top-level metadata.                   *)
(***************************************************************************)
\* a variant of rule 1 that takes toc_visible out of metadata.colab as well
RemoveWidgetsMetadata_AlsoTocVisible(st) ==
    LET md == PyGet(st.data, K_metadata, PyDict(<<>>))
    IN  IF md.exc # "" THEN Raised(md.exc, st)
        ELSE IF ~(md.v.k = "dict" /\ HasKey(md.v, K_widgets)) THEN st
        ELSE LET rest == DelKey(md.v, K_widgets)
                 strip == /\ HasKey(rest, K_colab)
                          /\ Lookup(rest, K_colab).k = "dict"
                          /\ HasKey(Lookup(rest, K_colab), K_toc_visible)
             IN  [st EXCEPT
                    !.data = SetKey(st.data, K_metadata,
                                 IF strip
                                 THEN SetKey(rest, K_colab,
                                          DelKey(Lookup(rest, K_colab),
                                                 K_toc_visible))
                                 ELSE rest),
                    !.changes_made =
                        Append(st.changes_made, WidgetsDescription)]

RemoveWidgetsMetadata(st) ==
    LET md == PyGet(st.data, K_metadata, PyDict(<<>>))
    IN  IF md.exc # "" THEN Raised(md.exc, st)
        ELSE LET found == PyContains(K_widgets, md.v)
             IN  IF found.exc # "" THEN Raised(found.exc, st)
                 ELSE IF ~found.v THEN st
                 ELSE LET deleted == PyDelItem(md.v, K_widgets)
                      IN  IF deleted.exc # "" THEN Raised(deleted.exc, st)
                          ELSE [st EXCEPT
                                 !.data = SetKey(st.data, K_metadata, deleted.v),
                                 !.changes_made =
                                     Append(st.changes_made, WidgetsDescription)]

(***************************************************************************)
(* Rule 2: remove the widget view from the outputs of the cells.           *)
(***************************************************************************)
\* 'data' in output and WIDGET_VIEW in output['data']
IsWidgetOutput(output) ==
    LET hasData == PyContains(K_data, output)
    IN  IF hasData.exc # "" \/ ~hasData.v THEN hasData
        ELSE LET d == PyGetItem(output, K_data)
             IN  IF d.exc # "" THEN Raise(d.exc)
                 ELSE PyContains(WIDGET_VIEW, d.v)

\* a variant of StripWidgetView that removes nothing
StripWidgetView_Nothing(output) ==
    Ok(output)

\* output_copy after the two removals, for an output IsWidgetOutput accepts
\* (which makes output a dict with the key 'data')
StripWidgetView(output) ==
    LET deleted == PyDelItem(Lookup(output, K_data), WIDGET_VIEW)
    IN  IF deleted.exc # "" THEN Raise(deleted.exc)
        ELSE LET output_copy == SetKey(output, K_data, deleted.v)
             IN  IF ~HasKey(output_copy, K_metadata) THEN Ok(output_copy)
                 ELSE LET popped == PyPop(Lookup(output_copy, K_metadata),
                                          WIDGET_VIEW)
                      IN  IF popped.exc # "" THEN Raise(popped.exc)
                          ELSE Ok(SetKey(output_copy, K_metadata, popped.v))

\* a variant of HasDataLeft that keeps every output
HasDataLeft_Always(output_copy) ==
    TRUE

\* if output_copy.get('data')
HasDataLeft(output_copy) ==
    PyTruthy(Lookup(output_copy, K_data))

\* the loop over cell['outputs']: [exc, new_outputs, widgets_removed]; each
\* pass binds output to the value of the next element
RECURSIVE RebuildOutputs(_, _, _)
RebuildOutputs(outputs, new_outputs, widgets_removed) ==
    IF outputs = <<>>
    THEN [exc |-> "", new_outputs |-> new_outputs,
          widgets_removed |-> widgets_removed]
    ELSE The({
         LET isWidget == IsWidgetOutput(output)
         IN  IF isWidget.exc # ""
             THEN [exc |-> isWidget.exc, new_outputs |-> new_outputs,
                   widgets_removed |-> widgets_removed]
             ELSE IF ~isWidget.v
             THEN RebuildOutputs(Tail(outputs), Append(new_outputs, output),
                                 widgets_removed)
             ELSE The({
                      IF stripped.exc # ""
                      THEN [exc |-> stripped.exc, new_outputs |-> new_outputs,
                            widgets_removed |-> widgets_removed + 1]
                      ELSE RebuildOutputs(Tail(outputs),
                               IF HasDataLeft(stripped.v)
                               THEN Append(new_outputs, stripped.v)
                               ELSE new_outputs,
                               widgets_removed + 1)
                  : stripped \in {StripWidgetView(output)} })
         : output \in {Head(outputs)} })

\* the loop over data.get('cells', []): [exc, cells, widgets_removed], cells
\* being the values the loop has visited, after their mutation; each pass
\* binds cell to the value of the next element
RECURSIVE CleanCells(_, _, _)
CleanCells(cells, visited, widgets_removed) ==
    IF cells = <<>>
    THEN [exc |-> "", cells |-> visited, widgets_removed |-> widgets_removed]
    ELSE The({
         LET hasOutputs == PyContains(K_outputs, cell)
             failed(e, n) == [exc |-> e, cells |-> visited,
                              widgets_removed |-> n]
         IN  IF hasOutputs.exc # "" THEN failed(hasOutputs.exc, widgets_removed)
             ELSE IF ~hasOutputs.v
             THEN CleanCells(Tail(cells), Append(visited, cell), widgets_removed)
             ELSE LET outs == PyGetItem(cell, K_outputs)
                  IN  IF outs.exc # "" THEN failed(outs.exc, widgets_removed)
                      ELSE LET it == PyIter(outs.v)
                           IN  IF it.exc # ""
                               THEN failed(it.exc, widgets_removed)
                               ELSE The({
                                        IF r.exc # ""
                                        THEN failed(r.exc, r.widgets_removed)
                                        ELSE CleanCells(Tail(cells),
                                                 Append(visited,
                                                     SetKey(cell, K_outputs,
                                                         PyList(r.new_outputs))),
                                                 r.widgets_removed)
                                    : r \in {RebuildOutputs(it.v, <<>>,
                                                            widgets_removed)} })
         : cell \in {Head(cells)} })

\* a variant of AnyWidgetRemoved that misses a single removal
AnyWidgetRemoved_MoreThanOne(widgets_removed) ==
    widgets_removed > 1

\* if widgets_removed > 0
AnyWidgetRemoved(widgets_removed) ==
    widgets_removed > 0

RemoveWidgetOutputs(st) ==
    LET cells == PyGet(st.data, K_cells, PyList(<<>>))
    IN  IF cells.exc # "" THEN Raised(cells.exc, st)
        ELSE LET it == PyIter(cells.v)
             IN  IF it.exc # "" THEN Raised(it.exc, st)
                 ELSE The({
                          IF r.exc # ""
                          THEN [st EXCEPT !.exc = r.exc,
                                          !.widgets_removed = r.widgets_removed]
                          ELSE [st EXCEPT
                                 \* the cells are mutated in place: only the
                                 \* elements of a list can have been changed
                                 !.data = IF cells.v.k = "list"
                                             /\ HasKey(st.data, K_cells)
                                          THEN SetKey(st.data, K_cells,
                                                      PyList(r.cells))
                                          ELSE st.data,
                                 !.widgets_removed = r.widgets_removed,
                                 !.changes_made =
                                     IF AnyWidgetRemoved(r.widgets_removed)
                                     THEN Append(st.changes_made,
                                              OutputsDescription(
                                                  r.widgets_removed))
                                     ELSE st.changes_made]
                      : r \in {CleanCells(it.v, <<>>, 0)} })

(***************************************************************************)
(* Rule 3: remove toc_visible from metadata.colab.                         *)
(***************************************************************************)
\* a variant of rule 3 that removes the colab mapping with its other keys
CleanColabMetadata_DropsColab(st) ==
    LET md == PyGet(st.data, K_metadata, PyDict(<<>>))
    IN  IF md.exc # "" THEN Raised(md.exc, st)
        ELSE IF /\ md.v.k = "dict"
                /\ HasKey(md.v, K_colab)
                /\ Lookup(md.v, K_colab).k = "dict"
                /\ HasKey(Lookup(md.v, K_colab), K_toc_visible)
        THEN [st EXCEPT
                !.data = SetKey(st.data, K_metadata, DelKey(md.v, K_colab)),
                !.changes_made = Append(st.changes_made,
                                     ColabDescription(<<"toc_visible">>))]
        ELSE st

CleanColabMetadata(st) ==
    LET md == PyGet(st.data, K_metadata, PyDict(<<>>))
    IN  IF md.exc # "" THEN Raised(md.exc, st)
        ELSE LET hasColab == PyContains(K_colab, md.v)
             IN  IF hasColab.exc # "" THEN Raised(hasColab.exc, st)
                 ELSE IF ~hasColab.v THEN st
                 ELSE LET colab_meta == PyGetItem(md.v, K_colab)
                      IN  IF colab_meta.exc # "" THEN Raised(colab_meta.exc, st)
                          ELSE LET found == PyContains(K_toc_visible,
                                                       colab_meta.v)
                               IN  IF found.exc # "" THEN Raised(found.exc, st)
                                   ELSE IF ~found.v THEN st
                                   ELSE LET deleted == PyDelItem(colab_meta.v,
                                                           K_toc_visible)
                                        IN  IF deleted.exc # ""
                                            THEN Raised(deleted.exc, st)
                                            ELSE [st EXCEPT
                                                   !.data = SetKey(st.data, K_metadata,
                                                       SetKey(md.v, K_colab, deleted.v)),
                                                   !.changes_made = Append(st.changes_made,
                                                       ColabDescription(<<"toc_visible">>))]

(***************************************************************************)
(* The body of the try block between the read and the write: the rules in  *)
(* their order, an exception ending it.                                    *)
(***************************************************************************)
\* the next rule, unless an exception has ended the try block
ThenRemoveWidgetOutputs(st) ==
    IF st.exc # "" THEN st ELSE RemoveWidgetOutputs(st)

ThenCleanColabMetadata(st) ==
    IF st.exc # "" THEN st ELSE CleanColabMetadata(st)

ApplyRules(tree) ==
    ThenCleanColabMetadata(ThenRemoveWidgetOutputs(RemoveWidgetsMetadata(
        [exc |-> "", data |-> tree, changes_made |-> <<>>,
         widgets_removed |-> 0])))

(***************************************************************************)
(* The notebook file.  text is "json" when the content parses (tree is the *)
(* parsed document), "malformed" when json.load rejects it, "truncated"    *)
(* after a write that stopped part-way; indent is the indentation of the   *)
(* text.                                                                   *)
(***************************************************************************)
JsonFile(tree, indent) ==
    [text |-> "json", tree |-> tree, indent |-> indent]

MalformedFile ==
    [text |-> "malformed", tree |-> PyNone, indent |-> 0]

TruncatedFile ==
    [text |-> "truncated", tree |-> PyNone, indent |-> 1]

\* json.load(f)
Load(f) ==
    IF f.text = "json" THEN Ok(f.tree) ELSE Raise("JSONDecodeError")

\* a str or a dict key somewhere in x holds a lone surrogate, which the
\* utf-8 encoder of the output file rejects
RECURSIVE HasSurrogate(_)
HasSurrogate(x) ==
    \/ \E i \in 1..Len(x.s) : x.s[i] = SURROGATE
    \/ \E i \in 1..Len(x.a) : HasSurrogate(x.a[i])
    \/ \E i \in 1..Len(x.m) :
          \/ \E j \in 1..Len(x.m[i].key) : x.m[i].key[j] = SURROGATE
          \/ HasSurrogate(x.m[i].val)

\* open(notebook_path, 'w') followed by json.dump(data, f, indent=1,
\* ensure_ascii=False): the exception raised and the file left behind.
\* The file is emptied when it is opened; ensure_ascii=False writes the
\* characters of a str as they are, and encoding a lone surrogate raises
\* after the text before it has been written.
Dump(tree) ==
    IF HasSurrogate(tree)
    THEN [exc |-> "UnicodeEncodeError", file |-> TruncatedFile]
    ELSE [exc |-> "", file |-> JsonFile(tree, 1)]

(***************************************************************************)
(* clean_notebook as one call: the result and the file it leaves.          *)
(***************************************************************************)
\* raised names the exception that leaves the call, "" when it returns
Returned(success, changes, f) ==
    [success |-> success, changes |-> changes, file |-> f, raised |-> ""]

\* a variant of Caught for a clause `except TypeError`
Caught_TypeErrorOnly(e) ==
    e = "TypeError"

\* except Exception: the exceptions the rules and the write raise are all
\* subclasses of Exception
Caught(e) ==
    e \in {"TypeError", "AttributeError", "KeyError", "UnicodeEncodeError",
           "JSONDecodeError"}

\* the outcome of the call when e is raised after the read, f being the file
\* at that moment
Excepted(e, f) ==
    IF Caught(e)
    THEN Returned(FALSE, <<ErrorDescription(e)>>, f)
    ELSE [success |-> FALSE, changes |-> <<>>, file |-> f, raised |-> e]

clean_notebook(f) ==
    LET loaded == Load(f)
    IN  IF loaded.exc # ""
        THEN Returned(FALSE, <<InvalidJsonDescription>>, f)
        ELSE LET st == ApplyRules(loaded.v)
             IN  IF st.exc # "" THEN Excepted(st.exc, f)
                 ELSE LET written == Dump(st.data)
                      IN  IF written.exc # ""
                          THEN Excepted(written.exc, written.file)
                          ELSE Returned(TRUE, st.changes_made, written.file)

(***************************************************************************)
(* Sample notebooks.                                                       *)
(***************************************************************************)
MaxCells ==
    3

MaxOutputs ==
    3

SeqsUpTo(S, n) ==
    UNION {[1..len -> S] : len \in 0..n}

WidgetPayload ==
    PyDict(<<Item(<<"i", "d">>, PyStr(<<"7">>))>>)

\* data holds the widget view only
WidgetOnlyOutput ==
    PyDict(<<Item(K_data, PyDict(<<Item(WIDGET_VIEW, WidgetPayload)>>))>>)

\* data holds the widget view and text/plain, metadata the widget view too
MixedOutput ==
    PyDict(<<Item(K_data, PyDict(<<Item(WIDGET_VIEW, WidgetPayload),
                                   Item(K_text_plain, PyStr(<<"x">>))>>)),
             Item(K_metadata, PyDict(<<Item(WIDGET_VIEW, PyDict(<<>>)),
                                       Item(K_text_plain, PyDict(<<>>))>>))>>)

\* data holds the widget view and text/plain, metadata lacks the widget view
MixedOutputPlainMeta ==
    PyDict(<<Item(K_data, PyDict(<<Item(K_text_plain, PyStr(<<"y">>)),
                                   Item(WIDGET_VIEW, WidgetPayload)>>)),
             Item(K_metadata, PyDict(<<>>))>>)

TextOutput ==
    PyDict(<<Item(K_data, PyDict(<<Item(K_text_plain, PyStr(<<"x">>))>>))>>)

\* a stream output: no data key
StreamOutput ==
    PyDict(<<Item(K_name, PyStr(<<"o">>))>>)

SampleOutputs ==
    {WidgetOnlyOutput, MixedOutput, MixedOutputPlainMeta, TextOutput,
     StreamOutput}

CodeCell(outputs) ==
    PyDict(<<Item(K_cell_type, PyStr(<<"c">>)),
             Item(K_outputs, PyList(outputs))>>)

MarkdownCell ==
    PyDict(<<Item(K_cell_type, PyStr(<<"m">>))>>)

\* a code cell for every list of sample outputs
SampleCodeCells ==
    {CodeCell(outs) : outs \in SeqsUpTo(SampleOutputs, MaxOutputs)}

\* the cells that the longer cell lists are made of
FewCells ==
    { MarkdownCell,
      CodeCell(<<TextOutput>>),
      CodeCell(<<WidgetOnlyOutput, MixedOutput>>),
      CodeCell(<<MixedOutputPlainMeta, StreamOutput>>) }

SampleCellLists ==
    {<<cell>> : cell \in SampleCodeCells} \cup SeqsUpTo(FewCells, MaxCells)

SampleColab ==
    { PyDict(<<Item(K_name, PyStr(<<"x">>))>>),
      PyDict(<<Item(K_toc_visible, PyTrue), Item(K_name, PyStr(<<"x">>))>>),
      PyDict(<<Item(K_toc_visible, PyTrue)>>) }

OptionalItem(key, vals) ==
    {<<>>} \cup {<<Item(key, v)>> : v \in vals}

\* metadata mappings; the title is one the output file can or cannot encode
SampleMetadata ==
    { PyDict(w \o c \o <<Item(K_title, PyStr(t))>>) :
        w \in OptionalItem(K_widgets, {PyDict(<<Item(K_foo, PyInt(<<"1">>))>>)}),
        c \in OptionalItem(K_colab, SampleColab),
        t \in {<<"n">>, <<SURROGATE>>} }

DirtyMetadata ==
    PyDict(<<Item(K_widgets, PyDict(<<Item(K_foo, PyInt(<<"1">>))>>)),
             Item(K_colab, PyDict(<<Item(K_toc_visible, PyTrue),
                                    Item(K_name, PyStr(<<"x">>))>>)),
             Item(K_title, PyStr(<<"n">>))>>)

CleanMetadata ==
    PyDict(<<Item(K_colab, PyDict(<<Item(K_name, PyStr(<<"x">>))>>)),
             Item(K_title, PyStr(<<"n">>))>>)

\* documents of the expected shape: every sample metadata with a few cell
\* lists, and every sample cell list with a few metadata
SampleDocuments ==
    { PyDict(md \o cs) :
        md \in OptionalItem(K_metadata, SampleMetadata),
        cs \in OptionalItem(K_cells,
                 { PyList(<<>>),
                   PyList(<<MarkdownCell, CodeCell(<<TextOutput>>)>>),
                   PyList(<<CodeCell(<<WidgetOnlyOutput, MixedOutput>>)>>) }) }
    \cup
    { PyDict(md \o cs) :
        md \in OptionalItem(K_metadata, {DirtyMetadata, CleanMetadata}),
        cs \in OptionalItem(K_cells,
                 {PyList(cells) : cells \in SampleCellLists}) }

\* documents with another JSON value where the rules expect a mapping or a
\* sequence
WithMetadata(md) ==
    PyDict(<<Item(K_metadata, md), Item(K_cells, PyList(<<>>))>>)

WithCells(cells) ==
    PyDict(<<Item(K_metadata, PyDict(<<>>)), Item(K_cells, cells)>>)

WithCell(cell) ==
    WithCells(PyList(<<MarkdownCell, cell>>))

WithOutputsValue(outputs) ==
    WithCell(PyDict(<<Item(K_outputs, outputs)>>))

WithOutput(output) ==
    WithOutputsValue(PyList(<<TextOutput, output>>))

WidgetAndText ==
    PyDict(<<Item(WIDGET_VIEW, WidgetPayload),
             Item(K_text_plain, PyStr(<<"x">>))>>)

OddDocuments ==
    { PyList(<<>>), PyStr(<<"x">>), PyNone,
      WithMetadata(PyStr(K_widgets)), WithMetadata(PyStr(<<"x">>)),
      WithMetadata(PyList(<<PyStr(K_widgets)>>)), WithMetadata(PyList(<<>>)),
      WithMetadata(PyInt(<<"3">>)), WithMetadata(PyNone),
      WithMetadata(PyDict(<<Item(K_colab, PyStr(K_toc_visible))>>)),
      WithMetadata(PyDict(<<Item(K_colab, PyStr(<<"x">>))>>)),
      WithMetadata(PyDict(<<Item(K_colab, PyList(<<PyStr(K_toc_visible)>>))>>)),
      WithMetadata(PyDict(<<Item(K_colab, PyNone)>>)),
      WithCells(PyStr(<<"a", "b">>)), WithCells(PyStr(K_outputs)),
      WithCells(PyDict(<<Item(K_c, CodeCell(<<WidgetOnlyOutput>>))>>)),
      WithCells(PyDict(<<Item(K_outputs, PyList(<<>>))>>)),
      WithCells(PyInt(<<"5">>)), WithCells(PyNone), WithCells(PyTrue),
      PyDict(<<Item(K_metadata, PyDict(<<Item(K_widgets, PyDict(<<>>))>>)),
               Item(K_cells, PyInt(<<"5">>))>>),
      WithCell(PyStr(K_outputs)), WithCell(PyStr(<<"x">>)),
      WithCell(PyList(<<PyStr(K_outputs)>>)), WithCell(PyList(<<>>)),
      WithCell(PyInt(<<"1">>)), WithCell(PyNone),
      WithOutputsValue(PyDict(<<Item(<<"a">>, PyInt(<<"1">>))>>)),
      WithOutputsValue(PyStr(<<"a", "b">>)),
      WithOutputsValue(PyNone), WithOutputsValue(PyInt(<<"2">>)),
      WithOutput(PyStr(K_data)), WithOutput(PyStr(<<"x">>)),
      WithOutput(PyList(<<PyStr(K_data)>>)), WithOutput(PyList(<<>>)),
      WithOutput(PyInt(<<"1">>)), WithOutput(PyNone),
      WithOutput(PyDict(<<Item(K_data, PyList(<<PyStr(WIDGET_VIEW)>>))>>)),
      WithOutput(PyDict(<<Item(K_data, PyList(<<>>))>>)),
      WithOutput(PyDict(<<Item(K_data, PyStr(WIDGET_VIEW))>>)),
      WithOutput(PyDict(<<Item(K_data, PyNone)>>)),
      WithOutput(PyDict(<<Item(K_data, WidgetAndText),
                          Item(K_metadata, PyList(<<>>))>>)),
      WithOutput(PyDict(<<Item(K_data, WidgetAndText),
                          Item(K_metadata, PyNone)>>)),
      WithOutput(PyDict(<<Item(K_data, WidgetAndText),
                          Item(K_metadata, PyStr(<<"x">>))>>)) }

\* the files clean_notebook is called on
SampleFiles ==
    {JsonFile(tree, 2) : tree \in SampleDocuments \cup OddDocuments}
        \cup {MalformedFile}

(***************************************************************************)
(* State.                                                                  *)
(***************************************************************************)
VARIABLES
    file,             \* content of the notebook file
    pc,               \* position in clean_notebook
    data,             \* the parsed tree being cleaned
    changes_made,     \* the change descriptions so far
    widgets_removed,  \* the counter of rule 2
    result,           \* what clean_notebook returned: [success, changes]
    file0,            \* content of the file when the current call began
    run,              \* number of calls of clean_notebook on the file
    first,            \* result and file of the first call
    todo,             \* rules still to apply, when applied in another order
    argv,             \* main: sys.argv[1:]
    expanded_files,   \* main: the resolved paths
    idx,              \* main: number of paths the loop has handled
    success_count,    \* main
    total_count,      \* main
    log,              \* main: the lines printed
    mpc               \* main: position

vars ==
    <<file, pc, data, changes_made, widgets_removed, result, file0, run,
      first, todo, argv, expanded_files, idx, success_count, total_count, log,
      mpc>>

cleanVars ==
    <<file, pc, data, changes_made, widgets_removed, result, file0, run, first>>

mainVars ==
    <<argv, expanded_files, idx, success_count, total_count, log, mpc>>

NoResult ==
    [success |-> FALSE, changes |-> <<>>]

MaxRuns ==
    2

(***************************************************************************)
(* clean_notebook, one step per statement group of the try block.          *)
(***************************************************************************)
CleanIdle ==
    /\ todo = <<>>
    /\ UNCHANGED <<todo, mainVars>>

Return(success, changes) ==
    /\ pc' = "returned"
    /\ result' = [success |-> success, changes |-> changes]

\* except Exception as e: return False, [f"Error: {e}"]; an exception the
\* clause does not catch leaves the call
Except(e) ==
    IF Caught(e)
    THEN Return(FALSE, <<ErrorDescription(e)>>)
    ELSE pc' = "raised" /\ UNCHANGED result

\* with open(...) as f: data = json.load(f); changes_made = []
ReadNotebook ==
    /\ pc = "call"
    /\ LET loaded == Load(file)
       IN  IF loaded.exc # ""
           THEN /\ Return(FALSE, <<InvalidJsonDescription>>)
                /\ UNCHANGED <<data, changes_made, widgets_removed>>
           ELSE /\ pc' = "rule1"
                /\ data' = loaded.v
                /\ changes_made' = <<>>
                /\ widgets_removed' = 0
                /\ UNCHANGED result
    /\ UNCHANGED <<file, file0, run, first>>
    /\ CleanIdle

\* the locals of the try block, no exception raised
Locals ==
    [exc |-> "", data |-> data, changes_made |-> changes_made,
     widgets_removed |-> widgets_removed]

\* the step of one rule, st being what the rule makes of the locals: the
\* rule's effect, or the except clause
RuleStep(here, st, next) ==
    /\ pc = here
    /\ data' = st.data
    /\ changes_made' = st.changes_made
    /\ widgets_removed' = st.widgets_removed
    /\ IF st.exc # "" THEN Except(st.exc)
                      ELSE pc' = next /\ UNCHANGED result
    /\ UNCHANGED <<file, file0, run, first>>
    /\ CleanIdle

Rule1 ==
    RuleStep("rule1", RemoveWidgetsMetadata(Locals), "rule2")

Rule2 ==
    RuleStep("rule2", RemoveWidgetOutputs(Locals), "rule3")

Rule3 ==
    RuleStep("rule3", CleanColabMetadata(Locals), "save")

\* with open(..., 'w') as f: json.dump(...); return True, changes_made
SaveNotebook ==
    /\ pc = "save"
    /\ LET written == Dump(data)
       IN  /\ file' = written.file
           /\ IF written.exc # "" THEN Except(written.exc)
                                  ELSE Return(TRUE, changes_made)
    /\ UNCHANGED <<data, changes_made, widgets_removed, file0, run, first>>
    /\ CleanIdle

\* the caller runs clean_notebook on the same file once more
CallAgain ==
    /\ pc = "returned"
    /\ run < MaxRuns
    /\ pc' = "call"
    /\ run' = run + 1
    /\ first' = IF run = 1 THEN [result |-> result, file |-> file] ELSE first
    /\ file0' = file
    /\ result' = NoResult
    /\ UNCHANGED <<file, data, changes_made, widgets_removed>>
    /\ CleanIdle

MainIdleInit ==
    /\ argv = <<>>
    /\ expanded_files = <<>>
    /\ idx = 0
    /\ success_count = 0
    /\ total_count = 0
    /\ log = <<>>
    /\ mpc = "off"

Init ==
    /\ file \in SampleFiles
    /\ file0 = file
    /\ pc = "call"
    /\ data = PyNone
    /\ changes_made = <<>>
    /\ widgets_removed = 0
    /\ result = NoResult
    /\ run = 1
    /\ first = [result |-> NoResult, file |-> file]
    /\ todo = <<>>
    /\ MainIdleInit

Next ==
    \/ ReadNotebook
    \/ Rule1
    \/ Rule2
    \/ Rule3
    \/ SaveNotebook
    \/ CallAgain

Spec ==
    Init /\ [][Next]_vars


(***************************************************************************)
(* Reading a document tree, for the properties below.                      *)
(***************************************************************************)
KeysOf(x) ==
    {x.m[i].key : i \in 1..Len(x.m)}

Has(x, key) ==
    x.k = "dict" /\ key \in KeysOf(x)

ValueAt(x, key) ==
    (CHOOSE it \in {x.m[i] : i \in 1..Len(x.m)} : it.key = key).val

\* the mapping x without one key, the other items in their order
Without(x, key) ==
    PyDict(SelectSeq(x.m, LAMBDA it : it.key # key))

IsListAt(x, key) ==
    Has(x, key) /\ ValueAt(x, key).k = "list"

\* the elements of the list under key, none when there is no such list
ListAt(x, key) ==
    IF IsListAt(x, key) THEN ValueAt(x, key).a ELSE <<>>

\* output.data is a mapping that contains the widget-view key
ViewInData(output) ==
    /\ Has(output, K_data)
    /\ Has(ValueAt(output, K_data), WIDGET_VIEW)

\* the widget view is the only key of output.data
ViewOnly(output) ==
    ViewInData(output) /\ KeysOf(ValueAt(output, K_data)) = {WIDGET_VIEW}

WidgetsExisted(tree) ==
    Has(tree, K_metadata) /\ Has(ValueAt(tree, K_metadata), K_widgets)

TocVisibleExisted(tree) ==
    /\ Has(tree, K_metadata)
    /\ Has(ValueAt(tree, K_metadata), K_colab)
    /\ Has(ValueAt(ValueAt(tree, K_metadata), K_colab), K_toc_visible)

\* positions <<cell, output>> of the outputs whose data has the widget view
ViewPositions(tree) ==
    { <<i, j>> \in (1..Len(ListAt(tree, K_cells))) \X (1..(MaxOutputs + 1)) :
        /\ j <= Len(ListAt(ListAt(tree, K_cells)[i], K_outputs))
        /\ ViewInData(ListAt(ListAt(tree, K_cells)[i], K_outputs)[j]) }

NoTrigger(tree) ==
    /\ ~WidgetsExisted(tree)
    /\ ~TocVisibleExisted(tree)
    /\ ViewPositions(tree) = {}

\* the shape of a document: a mapping whose metadata is a mapping, whose
\* colab metadata is a mapping, whose cells are a list of mappings, whose
\* outputs are lists of mappings with data and metadata mappings
IsMappingAt(x, key) ==
    Has(x, key) => ValueAt(x, key).k = "dict"

WellShapedOutput(output) ==
    /\ output.k = "dict"
    /\ IsMappingAt(output, K_data)
    /\ IsMappingAt(output, K_metadata)

WellShapedCell(cell) ==
    /\ cell.k = "dict"
    /\ Has(cell, K_outputs) =>
          /\ IsListAt(cell, K_outputs)
          /\ \A j \in 1..Len(ListAt(cell, K_outputs)) :
                WellShapedOutput(ListAt(cell, K_outputs)[j])

WellShaped(tree) ==
    /\ tree.k = "dict"
    /\ IsMappingAt(tree, K_metadata)
    /\ Has(tree, K_metadata) => IsMappingAt(ValueAt(tree, K_metadata), K_colab)
    /\ Has(tree, K_cells) =>
          /\ IsListAt(tree, K_cells)
          /\ \A i \in 1..Len(ListAt(tree, K_cells)) :
                WellShapedCell(ListAt(tree, K_cells)[i])

Succeeded ==
    pc = "returned" /\ result.success

Failed ==
    pc = "returned" /\ ~result.success

(***************************************************************************)
(* C1.  Idempotence: when the first call of clean_notebook on a file of    *)
(* valid JSON succeeded, the second call on the file it wrote succeeds,    *)
(* returns an empty change list and leaves the file equal to what the      *)
(* first call wrote.                                                       *)
(***************************************************************************)
C1_Idempotent ==
    (run = 2 /\ pc = "returned" /\ first.result.success) =>
        /\ result.success
        /\ result.changes = <<>>
        /\ file = first.file

\* a second call has returned after a first call that changed all three
C1_Witness ==
    /\ run = 2
    /\ pc = "returned"
    /\ first.result.success
    /\ Len(first.result.changes) = 3

(***************************************************************************)
(* C2.  Rule 2, output by output: once rule 2 has run without raising,     *)
(* the cells are the original cells in their order, and in every cell with *)
(* an outputs list the new list is the original list in its order, without *)
(* the outputs whose data held the widget view only, the outputs whose     *)
(* data held the widget view and other keys having lost that key from data *)
(* and from metadata, the other outputs unchanged.                         *)
(***************************************************************************)
ExpectedOutput(output) ==
    IF ~ViewInData(output) THEN output
    ELSE PyDict([i \in 1..Len(output.m) |->
                  IF output.m[i].key \in {K_data, K_metadata}
                  THEN Item(output.m[i].key,
                            Without(output.m[i].val, WIDGET_VIEW))
                  ELSE output.m[i]])

ExpectedOutputs(outputs) ==
    LET kept == SelectSeq(outputs, LAMBDA output : ~ViewOnly(output))
    IN  [j \in 1..Len(kept) |-> ExpectedOutput(kept[j])]

\* a cell with an outputs list: the cell with that list rebuilt
ExpectedCell(cell) ==
    PyDict([i \in 1..Len(cell.m) |->
             IF cell.m[i].key = K_outputs
             THEN Item(K_outputs, PyList(ExpectedOutputs(cell.m[i].val.a)))
             ELSE cell.m[i]])

\* a cell apart from its outputs
Rest(cell) ==
    IF Has(cell, K_outputs) THEN Without(cell, K_outputs) ELSE cell

AfterRule2 ==
    pc \in {"rule3", "save"} \/ Succeeded

C2_PerOutputOutcome ==
    (AfterRule2 /\ IsListAt(file0.tree, K_cells)) =>
        /\ IsListAt(data, K_cells)
        /\ Len(ListAt(data, K_cells)) = Len(ListAt(file0.tree, K_cells))
        /\ \A i \in 1..Len(ListAt(file0.tree, K_cells)) :
              LET cell == ListAt(file0.tree, K_cells)[i]
              IN  IF IsListAt(cell, K_outputs)
                  THEN ListAt(data, K_cells)[i] = ExpectedCell(cell)
                  ELSE Rest(ListAt(data, K_cells)[i]) = Rest(cell)

\* rule 2 has run on a cell with an output it drops, one it strips and one
\* it keeps as it is
C2_Witness ==
    /\ pc = "rule3"
    /\ \E i \in 1..Len(ListAt(file0.tree, K_cells)) :
          LET outputs == ListAt(ListAt(file0.tree, K_cells)[i], K_outputs)
          IN  /\ \E j \in 1..Len(outputs) : ViewOnly(outputs[j])
              /\ \E j \in 1..Len(outputs) :
                    ViewInData(outputs[j]) /\ ~ViewOnly(outputs[j])
              /\ \E j \in 1..Len(outputs) : ~ViewInData(outputs[j])

(***************************************************************************)
(* C3.  The change list of a successful call is the subsequence of         *)
(* "Removed 'widgets' from metadata", "Removed N widget output             *)
(* reference(s)", "Cleaned Colab metadata: toc_visible", in this order,    *)
(* with the first present iff metadata.widgets existed, the second iff     *)
(* N > 0, N the number of outputs whose data held the widget view, and the *)
(* third iff metadata.colab held toc_visible.                              *)
(***************************************************************************)
ExpectedChanges(tree) ==
    LET N == Cardinality(ViewPositions(tree))
    IN  (IF WidgetsExisted(tree)
         THEN << <<"Removed 'widgets' from metadata">> >> ELSE <<>>)
        \o (IF N > 0
            THEN << <<"Removed ", ToString(N), " widget output reference(s)">> >>
            ELSE <<>>)
        \o (IF TocVisibleExisted(tree)
            THEN << <<"Cleaned Colab metadata: ", "toc_visible">> >> ELSE <<>>)

C3_ChangeList ==
    Succeeded => result.changes = ExpectedChanges(file0.tree)

\* a successful call on a document with widgets metadata, toc_visible and
\* three widget outputs, one of them kept
C3_Witness ==
    /\ Succeeded
    /\ run = 1
    /\ WidgetsExisted(file0.tree)
    /\ TocVisibleExisted(file0.tree)
    /\ Cardinality(ViewPositions(file0.tree)) = 3
    /\ ViewPositions(file.tree) = {}
    /\ \E p \in ViewPositions(file0.tree) :
          ~ViewOnly(ListAt(ListAt(file0.tree, K_cells)[p[1]], K_outputs)[p[2]])

(***************************************************************************)
(* C4.  After a successful call the written document has no                *)
(* metadata.widgets, no metadata.colab.toc_visible and no output with the  *)
(* widget view in its data, and metadata and metadata.colab keep their     *)
(* other keys with their values.                                           *)
(***************************************************************************)
OtherMetadata(tree) ==
    IF ~(Has(tree, K_metadata) /\ ValueAt(tree, K_metadata).k = "dict")
    THEN <<>>
    ELSE LET md == ValueAt(tree, K_metadata)
         IN  [i \in 1..Len(Without(md, K_widgets).m) |->
                LET it == Without(md, K_widgets).m[i]
                IN  IF it.key = K_colab /\ it.val.k = "dict"
                    THEN Item(K_colab, Without(it.val, K_toc_visible))
                    ELSE it]

C4_Postcondition ==
    Succeeded =>
        /\ ~WidgetsExisted(file.tree)
        /\ ~TocVisibleExisted(file.tree)
        /\ ViewPositions(file.tree) = {}
        /\ Has(file.tree, K_metadata) = Has(file0.tree, K_metadata)
        /\ OtherMetadata(file.tree) = OtherMetadata(file0.tree)
        /\ Has(file.tree, K_metadata) =>
              ValueAt(file.tree, K_metadata).m = OtherMetadata(file0.tree)

\* a successful call on a document that had widgets metadata, a colab
\* mapping with toc_visible and name, and a widget output
C4_Witness ==
    /\ Succeeded
    /\ run = 1
    /\ WidgetsExisted(file0.tree)
    /\ TocVisibleExisted(file0.tree)
    /\ Has(ValueAt(ValueAt(file0.tree, K_metadata), K_colab), K_name)
    /\ ViewPositions(file0.tree) # {}
    /\ Has(ValueAt(ValueAt(file.tree, K_metadata), K_colab), K_name)

(***************************************************************************)
(* C5.  No-op on clean input: on a well-shaped document with no             *)
(* metadata.widgets, no widget-view output and no colab.toc_visible, the   *)
(* call returns success with an empty change list, and the document        *)
(* written is the document read.                                           *)
(***************************************************************************)
C5_NoOpOnCleanInput ==
    (pc = "returned" /\ file0.text = "json" /\ WellShaped(file0.tree)
                     /\ NoTrigger(file0.tree)) =>
        /\ result.success
        /\ result.changes = <<>>
        /\ file.text = "json"
        /\ file.tree = file0.tree

(***************************************************************************)
(* C6.  No write on failure: a call that returns false returns exactly one *)
(* description and leaves the content of the file as it was; the file is   *)
(* written only by a call that returns true.                               *)
(***************************************************************************)
C6_NoWriteOnFailure ==
    Failed => (Len(result.changes) = 1 /\ file = file0)

(***************************************************************************)
(* C7.  As claimed: whenever cells is not a list, or metadata, a cell or   *)
(* an output is not a mapping, the call fails.                             *)
(***************************************************************************)
UnexpectedShape(tree) ==
    \/ Has(tree, K_cells) /\ ValueAt(tree, K_cells).k # "list"
    \/ Has(tree, K_metadata) /\ ValueAt(tree, K_metadata).k # "dict"
    \/ \E i \in 1..Len(ListAt(tree, K_cells)) :
          LET cell == ListAt(tree, K_cells)[i]
          IN  \/ cell.k # "dict"
              \/ \E j \in 1..Len(ListAt(cell, K_outputs)) :
                    ListAt(cell, K_outputs)[j].k # "dict"

C7_UnexpectedShapeFails ==
    (pc = "returned" /\ file0.text = "json" /\ UnexpectedShape(file0.tree))
        => ~result.success

(***************************************************************************)
(* C7, amended.  Whenever the root is not a mapping, or a number, boolean  *)
(* or null stands for metadata, metadata.colab, cells, a cell of the cells *)
(* list, the outputs of such a cell or an output of an outputs list, the   *)
(* call fails with the one description "Error: " and the exception.        *)
(***************************************************************************)
IsScalar(x) ==
    x.k \in {"int", "bool", "NoneType"}

ScalarAt(x, key) ==
    Has(x, key) /\ IsScalar(ValueAt(x, key))

ScalarInPlace(tree) ==
    \/ tree.k # "dict"
    \/ ScalarAt(tree, K_metadata)
    \/ Has(tree, K_metadata) /\ ScalarAt(ValueAt(tree, K_metadata), K_colab)
    \/ ScalarAt(tree, K_cells)
    \/ \E i \in 1..Len(ListAt(tree, K_cells)) :
          LET cell == ListAt(tree, K_cells)[i]
          IN  \/ IsScalar(cell)
              \/ ScalarAt(cell, K_outputs)
              \/ \E j \in 1..Len(ListAt(cell, K_outputs)) :
                    IsScalar(ListAt(cell, K_outputs)[j])

C7_ScalarShapeFails ==
    (pc = "returned" /\ file0.text = "json" /\ ScalarInPlace(file0.tree)) =>
        /\ ~result.success
        /\ \E e \in {"TypeError", "AttributeError"} :
              result.changes = << <<"Error: ", e>> >>
        /\ file = file0

\* a call has failed on a document whose cells value is a number
C7_Witness ==
    /\ Failed
    /\ ScalarAt(file0.tree, K_cells)
    /\ ValueAt(file0.tree, K_cells).k = "int"
    /\ ~WidgetsExisted(file0.tree)


(***************************************************************************)
(* The three rules in another order.                                       *)
(***************************************************************************)
RuleOrders ==
    { <<1, 2, 3>>, <<1, 3, 2>>, <<2, 1, 3>>, <<2, 3, 1>>, <<3, 1, 2>>,
      <<3, 2, 1>> }

\* rule n is the next to apply, st being what it makes of the locals
ApplyInOrder(n, st) ==
    /\ pc = "reorder"
    /\ todo # <<>>
    /\ Head(todo) = n
    /\ data' = st.data
    /\ changes_made' = st.changes_made
    /\ widgets_removed' = st.widgets_removed
    /\ pc' = IF st.exc # "" THEN "raised" ELSE pc
    /\ todo' = Tail(todo)
    /\ UNCHANGED <<file, file0, result, run, first, mainVars>>

ApplyRule1 ==
    ApplyInOrder(1, RemoveWidgetsMetadata(Locals))

ApplyRule2 ==
    ApplyInOrder(2, RemoveWidgetOutputs(Locals))

ApplyRule3 ==
    ApplyInOrder(3, CleanColabMetadata(Locals))

InitOrder ==
    /\ file \in {JsonFile(tree, 2) : tree \in SampleDocuments}
    /\ file0 = file
    /\ pc = "reorder"
    /\ data = file.tree
    /\ changes_made = <<>>
    /\ widgets_removed = 0
    /\ result = NoResult
    /\ run = 1
    /\ first = [result |-> NoResult, file |-> file]
    /\ todo \in RuleOrders
    /\ MainIdleInit

NextOrder ==
    \/ ApplyRule1
    \/ ApplyRule2
    \/ ApplyRule3

SpecOrder ==
    InitOrder /\ [][NextOrder]_vars

Range(seq) ==
    {seq[i] : i \in 1..Len(seq)}

(***************************************************************************)
(* C9.  Order-insensitivity: on a document of the expected shape, the      *)
(* three rules applied in any of their six orders leave the document, the  *)
(* set of change descriptions (the rule 2 count with it) and the counter   *)
(* that the order 1, 2, 3 leaves.                                          *)
(***************************************************************************)
C9_OrderInsensitive ==
    (pc = "reorder" /\ todo = <<>>) =>
        /\ data = ApplyRules(file0.tree).data
        /\ Range(changes_made) = Range(ApplyRules(file0.tree).changes_made)
        /\ Len(changes_made) = Len(ApplyRules(file0.tree).changes_made)
        /\ widgets_removed = ApplyRules(file0.tree).widgets_removed

\* the three rules have all fired, rule 3 first and rule 1 last
C9_Witness ==
    /\ pc = "reorder"
    /\ todo = <<>>
    /\ Len(changes_made) = 3
    /\ changes_made[1] = ColabDescription(<<"toc_visible">>)
    /\ changes_made[3] = WidgetsDescription
    /\ widgets_removed = 2

(***************************************************************************)
(* main.  A path is [name, exists, file]: its text, whether a file is      *)
(* there, and the content of that file.  A command line argument is        *)
(* [pattern, matches]: its text and the paths it stands for, the paths     *)
(* Path('.').glob(pattern) yields for a wildcard pattern, the one path     *)
(* Path(pattern) otherwise.  A printed line is [mark, path, text].         *)
(***************************************************************************)
MaxArgs ==
    2

\* ".ipynb"
DOT_IPYNB ==
    <<".", "i", "p", "y", "n", "b">>

\* str(notebook_path).endswith(suffix)
EndsWith(name, suffix) ==
    /\ Len(name) >= Len(suffix)
    /\ SubSeq(name, Len(name) - Len(suffix) + 1, Len(name)) = suffix

\* '*' in pattern or '?' in pattern
HasWildcard(pattern) ==
    IsSubstring(<<"*">>, pattern) \/ IsSubstring(<<"?">>, pattern)

Path(name, exists, f) ==
    [name |-> name, exists |-> exists, file |-> f]

DirtyNotebook ==
    JsonFile(PyDict(<<Item(K_metadata, DirtyMetadata),
                      Item(K_cells, PyList(<<CodeCell(<<WidgetOnlyOutput,
                                                        MixedOutput>>)>>))>>), 2)

CleanNotebook ==
    JsonFile(PyDict(<<Item(K_metadata, CleanMetadata),
                      Item(K_cells, PyList(<<CodeCell(<<TextOutput>>)>>))>>), 2)

BadShapeNotebook ==
    JsonFile(WithCells(PyInt(<<"5">>)), 2)

UnencodableNotebook ==
    JsonFile(PyDict(<<Item(K_title, PyStr(<<SURROGATE>>))>>), 2)

SamplePaths ==
    { Path(<<"d">> \o DOT_IPYNB, TRUE, DirtyNotebook),
      Path(<<"c">> \o DOT_IPYNB, TRUE, CleanNotebook),
      Path(<<"j">> \o DOT_IPYNB, TRUE, MalformedFile),
      Path(<<"s">> \o DOT_IPYNB, TRUE, BadShapeNotebook),
      Path(<<"u">> \o DOT_IPYNB, TRUE, UnencodableNotebook),
      Path(<<"m">> \o DOT_IPYNB, FALSE, MalformedFile),
      Path(<<"n", ".", "t", "x", "t">>, TRUE, MalformedFile) }

SampleArgs ==
    { [pattern |-> p.name, matches |-> <<p>>] : p \in SamplePaths }
    \cup
    { [pattern |-> <<"z", "*">>, matches |-> <<>>],
      [pattern |-> <<"?">> \o DOT_IPYNB,
       matches |-> <<Path(<<"s">> \o DOT_IPYNB, TRUE, BadShapeNotebook),
                     Path(<<"c">> \o DOT_IPYNB, TRUE, CleanNotebook)>>] }

\* the loop over sys.argv[1:] that fills expanded_files
RECURSIVE Expand(_)
Expand(notebook_files) ==
    IF notebook_files = <<>> THEN <<>>
    ELSE LET arg == Head(notebook_files)
         IN  (IF HasWildcard(arg.pattern)
              THEN arg.matches
              ELSE <<Path(arg.pattern, arg.matches[1].exists,
                          arg.matches[1].file)>>)
             \o Expand(Tail(notebook_files))

Line(mark, path, text) ==
    [mark |-> mark, path |-> path, text |-> text]

Banner ==
    << Line("=", <<>>, <<>>),
       Line("", <<>>, <<"Cleaning Google Colab Notebooks">>),
       Line("=", <<>>, <<>>) >>

\* the lines printed for the result of one clean_notebook call
ResultLines(success, changes) ==
    IF success
    THEN IF changes # <<>>
         THEN <<Line("[OK]", <<>>, <<"Cleaned successfully!">>)>>
              \o [i \in 1..Len(changes) |-> Line("-", <<>>, changes[i])]
         ELSE <<Line("[OK]", <<>>, <<"Already clean (no changes needed)">>)>>
    ELSE <<Line("[ERROR]", <<>>, <<"Failed:">>)>>
         \o [i \in 1..Len(changes) |-> Line("-", <<>>, changes[i])]

\* a variant of Counted that counts a failed call too
Counted_Every(success, count) ==
    count + 1

\* success_count after one clean_notebook call
Counted(success, count) ==
    IF success THEN count + 1 ELSE count

MainIdle ==
    UNCHANGED <<cleanVars, todo>>

\* if len(sys.argv) < 2: usage, sys.exit(1)
Usage ==
    /\ mpc = "start"
    /\ argv = <<>>
    /\ log' = log \o <<Line("", <<>>, <<"Error: Please provide at least one notebook file.">>)>>
    /\ mpc' = "exit1"
    /\ UNCHANGED <<argv, expanded_files, idx, success_count, total_count>>
    /\ MainIdle

\* if not expanded_files: sys.exit(1)
NoFilesFound ==
    /\ mpc = "start"
    /\ argv # <<>>
    /\ Expand(argv) = <<>>
    /\ expanded_files' = <<>>
    /\ log' = log \o <<Line("", <<>>, <<"Error: No notebook files found.">>)>>
    /\ mpc' = "exit1"
    /\ UNCHANGED <<argv, idx, success_count, total_count>>
    /\ MainIdle

\* the banner, success_count = 0, total_count = len(expanded_files)
Begin ==
    /\ mpc = "start"
    /\ argv # <<>>
    /\ Expand(argv) # <<>>
    /\ expanded_files' = Expand(argv)
    /\ log' = log \o Banner
    /\ success_count' = 0
    /\ total_count' = Len(Expand(argv))
    /\ idx' = 0
    /\ mpc' = "loop"
    /\ UNCHANGED argv
    /\ MainIdle

\* the path of the next iteration of the loop
InLoop ==
    mpc = "loop" /\ idx < Len(expanded_files)

notebook_path ==
    expanded_files[idx + 1]

\* if not notebook_path.exists(): continue
FileNotFound ==
    /\ InLoop
    /\ ~notebook_path.exists
    /\ log' = Append(log, Line("[X]", notebook_path.name, <<"File not found">>))
    /\ idx' = idx + 1
    /\ UNCHANGED <<argv, expanded_files, success_count, total_count, mpc>>
    /\ MainIdle

\* if not str(notebook_path).endswith('.ipynb'): continue
SkipNotNotebook ==
    /\ InLoop
    /\ notebook_path.exists
    /\ ~EndsWith(notebook_path.name, DOT_IPYNB)
    /\ log' = Append(log, Line("[!]", notebook_path.name,
                               <<"Skipping (not a .ipynb file)">>))
    /\ idx' = idx + 1
    /\ UNCHANGED <<argv, expanded_files, success_count, total_count, mpc>>
    /\ MainIdle

\* print(f"[*] Processing: ..."), and the call clean_notebook(notebook_path),
\* which the steps of clean_notebook carry out on the file of the path
Process ==
    /\ InLoop
    /\ notebook_path.exists
    /\ EndsWith(notebook_path.name, DOT_IPYNB)
    /\ log' = Append(log, Line("[*]", notebook_path.name, <<"Processing: ">>))
    /\ mpc' = "call"
    /\ pc' = "call"
    /\ file' = notebook_path.file
    /\ file0' = notebook_path.file
    /\ result' = NoResult
    /\ UNCHANGED <<argv, expanded_files, idx, success_count, total_count>>
    /\ UNCHANGED <<data, changes_made, widgets_removed, run, first, todo>>

\* success, changes = ..., and the report of it; main has no try block: an
\* exception leaving clean_notebook ends main
Report ==
    /\ mpc = "call"
    /\ pc \in {"returned", "raised"}
    /\ IF pc = "raised"
       THEN /\ mpc' = "crashed"
            /\ UNCHANGED <<expanded_files, log, success_count, idx>>
       ELSE /\ expanded_files' = [expanded_files EXCEPT ![idx + 1].file = file]
            /\ log' = log \o ResultLines(result.success, result.changes)
            /\ success_count' = Counted(result.success, success_count)
            /\ idx' = idx + 1
            /\ mpc' = "loop"
    /\ UNCHANGED <<argv, total_count>>
    /\ MainIdle

\* the tally and the closing message
Summary ==
    /\ mpc = "loop"
    /\ idx = Len(expanded_files)
    /\ log' = log
          \o << Line("=", <<>>, <<>>),
                Line("Results", <<>>,
                     <<"Results: ", ToString(success_count), "/",
                       ToString(total_count),
                       " notebooks processed successfully">>),
                Line("=", <<>>, <<>>),
                IF success_count = total_count
                THEN Line("[SUCCESS]", <<>>,
                          <<"All notebooks are now compatible with Jupyter/VS Code/Cursor!">>)
                ELSE Line("[WARNING]", <<>>,
                          <<ToString(total_count - success_count),
                            " notebook(s) had errors.">>) >>
    /\ mpc' = "done"
    /\ UNCHANGED <<argv, expanded_files, idx, success_count, total_count>>
    /\ MainIdle

InitMain ==
    /\ argv \in SeqsUpTo(SampleArgs, MaxArgs)
    /\ expanded_files = <<>>
    /\ idx = 0
    /\ success_count = 0
    /\ total_count = 0
    /\ log = <<>>
    /\ mpc = "start"
    /\ file = MalformedFile
    /\ file0 = MalformedFile
    /\ pc = "off"
    /\ data = PyNone
    /\ changes_made = <<>>
    /\ widgets_removed = 0
    /\ result = NoResult
    /\ run = 0
    /\ first = [result |-> NoResult, file |-> MalformedFile]
    /\ todo = <<>>

NextMain ==
    \/ Usage
    \/ NoFilesFound
    \/ Begin
    \/ FileNotFound
    \/ SkipNotNotebook
    \/ Process
    \/ ReadNotebook
    \/ Rule1
    \/ Rule2
    \/ Rule3
    \/ SaveNotebook
    \/ Report
    \/ Summary

\* main runs to its end: a started program takes its next step
SpecMain ==
    InitMain /\ [][NextMain]_vars /\ WF_vars(NextMain)

(***************************************************************************)
(* C8.  Batch isolation and completion: the paths the loop has handled are *)
(* the first idx resolved paths, each handled once and in list order,      *)
(* whatever became of the earlier ones, and a run that enters the loop     *)
(* reaches the final tally.                                                *)
(***************************************************************************)
HandledLines ==
    SelectSeq(log, LAMBDA l : l.mark \in {"[X]", "[!]", "[*]"})

MarkFor(p) ==
    IF ~p.exists THEN "[X]"
    ELSE IF ~EndsWith(p.name, DOT_IPYNB) THEN "[!]" ELSE "[*]"

HandledInOrder ==
    /\ Len(HandledLines) = idx
    /\ idx <= Len(Expand(argv))
    /\ \A i \in 1..idx :
          /\ HandledLines[i].path = Expand(argv)[i].name
          /\ HandledLines[i].mark = MarkFor(Expand(argv)[i])
    /\ mpc = "done" => idx = Len(Expand(argv))

C8_BatchCompletes ==
    /\ [](mpc \in {"loop", "done"} => HandledInOrder)
    /\ [](mpc # "crashed")
    /\ (mpc = "loop") ~> (mpc = "done" /\ log[Len(log) - 2].mark = "Results")

CountLines(marks) ==
    Len(SelectSeq(log, LAMBDA l : l.mark \in marks))

\* the run is over; a path that failed and a path that was skipped came
\* before a path that was cleaned
C8_Witness ==
    /\ mpc = "done"
    /\ \E i, j, k \in 1..Len(log) :
          /\ i < k /\ j < k
          /\ log[i].mark = "[ERROR]"
          /\ log[j].mark \in {"[X]", "[!]"}
          /\ log[k].mark = "[OK]"

(***************************************************************************)
(* C10.  Tally: in the loop success_count is the number of handled paths   *)
(* on which clean_notebook returned true, and at most the number handled;  *)
(* total_count is the number of resolved paths; at the end succeeded +     *)
(* failed + skipped = total, the all-success message is printed iff no     *)
(* path failed and none was skipped, and the warning reports total minus   *)
(* succeeded otherwise.                                                    *)
(***************************************************************************)
SucceedsOn(p) ==
    /\ p.exists
    /\ EndsWith(p.name, DOT_IPYNB)
    /\ clean_notebook(p.file).success

C10_Tally ==
    /\ mpc \in {"loop", "done"} =>
          /\ success_count =
                Cardinality({i \in 1..idx : SucceedsOn(Expand(argv)[i])})
          /\ success_count <= idx
          /\ total_count = Len(Expand(argv))
    /\ mpc = "done" =>
          LET failed == CountLines({"[ERROR]"})
              skipped == CountLines({"[X]", "[!]"})
          IN  /\ success_count + failed + skipped = total_count
              /\ (log[Len(log)].mark = "[SUCCESS]")
                     <=> (failed = 0 /\ skipped = 0)
              /\ log[Len(log)].mark # "[SUCCESS]" =>
                     log[Len(log)] =
                         Line("[WARNING]", <<>>,
                              <<ToString(total_count - success_count),
                                " notebook(s) had errors.">>)

\* a finished run with a cleaned, a failed and a skipped path
C10_Witness ==
    /\ mpc = "done"
    /\ success_count >= 1
    /\ CountLines({"[ERROR]"}) >= 1
    /\ CountLines({"[X]", "[!]"}) >= 1
    /\ total_count = 3
====
